---- MODULE Spec2Model ----
(***************************************************************************)
(* A model of src/script.py, the batch Markdown cleaner.                   *)
(*                                                                         *)
(* Text is a sequence of one-character strings, so that every stage of    *)
(* the cleaning pipeline is computed character by character as the Python  *)
(* code computes it.  The module holds                                     *)
(*   - the string helpers (str.split, str.strip, str.join, ...),           *)
(*   - one operator per cleaning stage of MarkdownCleaner,                 *)
(*   - the line scanner of format_tables as a step machine (SpecTable),    *)
(*   - the stages applied to bounded documents (SpecHeadings, SpecBlank,   *)
(*     SpecPipeline),                                                      *)
(*   - main/batch_clean/clean_file over a small file system (Spec).        *)
(***************************************************************************)
EXTENDS Integers, Sequences, FiniteSets, TLC

VARIABLES
    fs,           \* path -> the file on disk
    bak,          \* path -> the sibling backup <path>.bak, or NoFile
    config,       \* self.config of the running cleaner
    pc,           \* position of the running operation
    queue,        \* md_files still to be handed to clean_file
    discovered,   \* the files batch_clean found
    processed,    \* the files clean_file was called on in this batch
    report,       \* path -> the last outcome logged for it
    exitStatus,   \* exit status of the last finished process
    runs,         \* invocations of main so far
    dirWritable,  \* whether the directory of the files takes new files
    content,      \* the document handed to a stage
    cleaned,      \* what the stage returned
    lines,        \* format_tables: content.split('\n')
    pos,          \* format_tables: lines consumed by the loop
    result,       \* format_tables: result
    table_lines,  \* format_tables: table_lines
    in_table      \* format_tables: in_table

vars == <<fs, bak, config, pc, queue, discovered, processed, report,
          exitStatus, runs, dirWritable, content, cleaned, lines, pos,
          result, table_lines, in_table>>

batchVars == <<fs, bak, queue, discovered, processed, report, exitStatus,
               runs, dirWritable>>
stageVars == <<content, cleaned>>
scanVars == <<lines, pos, result, table_lines, in_table>>

----------------------------------------------------------------------------
(* Characters and Python's string helpers                                  *)

NL == "\n"
BAR == "|"
HASH == "#"

\* what str.strip() strips and \s matches
WhiteSpace == {" ", "\t", "\n", "\r", "\f"}
IsSpace(c) == c \in WhiteSpace

Lower == {"a","b","c","d","e","f","g","h","i","j","k","l","m",
          "n","o","p","q","r","s","t","u","v","w","x","y","z"}
Upper == {"A","B","C","D","E","F","G","H","I","J","K","L","M",
          "N","O","P","Q","R","S","T","U","V","W","X","Y","Z"}
Digits == {"0","1","2","3","4","5","6","7","8","9"}
\* what \w matches
IsWord(c) == c \in Lower \cup Upper \cup Digits \cup {"_"}

Min(a, b) == IF a <= b THEN a ELSE b
Max(a, b) == IF a >= b THEN a ELSE b

Contains(s, c) == \E i \in 1..Len(s) : s[i] = c
Count(s, c) == Cardinality({i \in 1..Len(s) : s[i] = c})
Remove(s, c) == SelectSeq(s, LAMBDA x : x # c)
StartsWith(s, c) == Len(s) >= 1 /\ s[1] = c
From(s, i) == SubSeq(s, i, Len(s))
Repeat(c, n) == [i \in 1..n |-> c]

\* lit occurs in s at position i
At(s, i, lit) ==
    /\ i >= 1
    /\ i + Len(lit) - 1 <= Len(s)
    /\ \A k \in 1..Len(lit) : s[i + k - 1] = lit[k]

RECURSIVE LStrip(_)
LStrip(s) == IF Len(s) >= 1 /\ IsSpace(s[1]) THEN LStrip(Tail(s)) ELSE s

RECURSIVE RStrip(_)
RStrip(s) ==
    IF Len(s) >= 1 /\ IsSpace(s[Len(s)])
    THEN RStrip(SubSeq(s, 1, Len(s) - 1))
    ELSE s

Strip(s) == LStrip(RStrip(s))

\* s.split(sep) for a one-character sep: always at least one piece
RECURSIVE Split(_, _)
Split(s, sep) ==
    IF Contains(s, sep)
    THEN LET i == CHOOSE i \in 1..Len(s) :
                      s[i] = sep /\ \A j \in 1..(i - 1) : s[j] # sep
         IN  <<SubSeq(s, 1, i - 1)>> \o Split(From(s, i + 1), sep)
    ELSE <<s>>

\* sep.join(pieces)
RECURSIVE Join(_, _)
Join(pieces, sep) ==
    IF pieces = <<>> THEN <<>>
    ELSE IF Len(pieces) = 1 THEN pieces[1]
    ELSE pieces[1] \o sep \o Join(Tail(pieces), sep)

\* first position >= i of s that holds no whitespace (Len(s)+1 if none)
RECURSIVE SkipSpace(_, _)
SkipSpace(s, i) ==
    IF i <= Len(s) /\ IsSpace(s[i]) THEN SkipSpace(s, i + 1) ELSE i

MinOf(S) == CHOOSE m \in S : \A x \in S : m <= x
MaxOf(S) == CHOOSE m \in S : \A x \in S : x <= m

RECURSIVE DropLeading(_, _)
DropLeading(s, c) == IF StartsWith(s, c) THEN DropLeading(Tail(s), c) ELSE s

RECURSIVE DropTrailing(_, _)
DropTrailing(s, c) ==
    IF Len(s) >= 1 /\ s[Len(s)] = c
    THEN DropTrailing(SubSeq(s, 1, Len(s) - 1), c)
    ELSE s

----------------------------------------------------------------------------
(* normalize_headings                                                      *)

MaxHeadingLevel == 6

\* re.sub(r'^#+\s*', '', line)
StripOpeningMarkers(line) ==
    IF StartsWith(line, HASH) THEN LStrip(DropLeading(line, HASH)) ELSE line

\* re.sub(r'\s*#+\s*$', '', line): the last run of markers, when only
\* whitespace follows it, goes with the whitespace around it
StripClosingMarkers(line) ==
    LET r == RStrip(line)
    IN  IF Len(r) >= 1 /\ r[Len(r)] = HASH
        THEN RStrip(DropTrailing(r, HASH))
        ELSE line

\* min(line.count('#') + 1, 6) if '#' in line else 1
HeadingLevel(line) ==
    IF Contains(line, HASH)
    THEN Min(Count(line, HASH) + 1, MaxHeadingLevel)
    ELSE 1

\* the body of the loop over lines
NormalizeHeadingLine(line) ==
    IF StartsWith(Strip(line), HASH)
    THEN LET t == StripClosingMarkers(StripOpeningMarkers(line))
         IN  Repeat(HASH, HeadingLevel(t)) \o <<" ">> \o Strip(Remove(t, HASH))
    ELSE line

normalize_headings(cfg, text) ==
    IF ~cfg.normalize_headings THEN text
    ELSE LET ls == Split(text, NL)
         IN  Join([i \in 1..Len(ls) |-> NormalizeHeadingLine(ls[i])], <<NL>>)

----------------------------------------------------------------------------
(* format_tables and _format_table_lines                                   *)

\* [cell.strip() for cell in line.split('|')[1:-1]]
Cells(line) ==
    LET parts == Split(line, BAR)
    IN  [i \in 1..(Len(parts) - 2) |-> Strip(parts[i + 1])]

\* col_widths after the first loop of _format_table_lines
ColWidths(tl) ==
    LET n == MaxOf({0} \cup {Len(Cells(tl[j])) : j \in 1..Len(tl)})
    IN  [i \in 1..n |->
            MaxOf({0} \cup {Len(Cells(tl[j])[i]) :
                            j \in {r \in 1..Len(tl) : Len(Cells(tl[r])) >= i}})]

\* f'{cell:<{width}}'
PadRight(cell, width) ==
    IF Len(cell) >= width THEN cell
    ELSE cell \o Repeat(" ", width - Len(cell))

\* one pass of the second loop; j counts rows from 1, so row 2 is j == 1
FormatRow(tl, j, widths) ==
    LET cells == Cells(tl[j])
        formatted_cells ==
            [i \in 1..Len(cells) |->
                IF j = 2
                THEN Repeat("-", widths[i] + 2)
                ELSE <<" ">> \o PadRight(cells[i], widths[i]) \o <<" ">>]
    IN  <<BAR>> \o Join(formatted_cells, <<BAR>>) \o <<BAR>>

FormatTableLines(tl) ==
    IF Len(tl) < 2 THEN tl
    ELSE LET widths == ColWidths(tl)
         IN  [j \in 1..Len(tl) |-> FormatRow(tl, j, widths)]

\* if '|' in line and not line.strip().startswith('|'): line = '|' + line + '|'
Bracket(line) ==
    IF Contains(line, BAR) /\ ~StartsWith(Strip(line), BAR)
    THEN <<BAR>> \o line \o <<BAR>>
    ELSE line

IsCandidate(line) == Contains(line, BAR)

\* one pass of the loop of format_tables over the scanner's state
ScanLine(st, raw) ==
    LET line == Bracket(raw)
    IN  IF Contains(line, BAR)
        THEN [result      |-> st.result,
              table_lines |-> (IF st.in_table THEN st.table_lines ELSE <<>>)
                                 \o <<line>>,
              in_table    |-> TRUE]
        ELSE IF st.in_table /\ Len(st.table_lines) >= 2
             THEN [result      |-> st.result
                                      \o FormatTableLines(st.table_lines)
                                      \o <<line>>,
                   table_lines |-> <<>>,
                   in_table    |-> FALSE]
             ELSE [st EXCEPT !.result = Append(st.result, line)]

\* the flush after the loop
ScanEnd(st) ==
    IF st.in_table /\ Len(st.table_lines) >= 2
    THEN st.result \o FormatTableLines(st.table_lines)
    ELSE st.result

ScanStart == [result |-> <<>>, table_lines |-> <<>>, in_table |-> FALSE]

RECURSIVE ScanAll(_, _)
ScanAll(st, ls) ==
    IF ls = <<>> THEN st ELSE ScanAll(ScanLine(st, Head(ls)), Tail(ls))

format_tables(cfg, text) ==
    IF ~cfg.format_tables THEN text
    ELSE Join(ScanEnd(ScanAll(ScanStart, Split(text, NL))), <<NL>>)

----------------------------------------------------------------------------
(* the whitespace stages                                                   *)

remove_trailing_whitespace(cfg, text) ==
    IF ~cfg.remove_trailing_whitespace THEN text
    ELSE LET ls == Split(text, NL)
         IN  Join([i \in 1..Len(ls) |-> RStrip(ls[i])], <<NL>>)

\* the replacement '\n\n\n', which keeps two blank lines as the comment in
\* the code has it
RECURSIVE CollapseBlankKeepTwo(_)
CollapseBlankKeepTwo(s) ==
    IF s = <<>> THEN <<>>
    ELSE IF s[1] = NL
         THEN LET e == SkipSpace(s, 1)
                  nls == {k \in 1..(e - 1) : s[k] = NL}
              IN  IF Cardinality(nls) >= 3
                  THEN <<NL, NL, NL>>
                           \o CollapseBlankKeepTwo(From(s, MaxOf(nls) + 1))
                  ELSE <<s[1]>> \o CollapseBlankKeepTwo(Tail(s))
         ELSE <<s[1]>> \o CollapseBlankKeepTwo(Tail(s))

\* re.sub(r'\n\s*\n\s*\n', '\n\n', s): a match starts at a line break and,
\* both \s* being greedy, runs to the last line break of the whitespace
\* that follows; it needs three line breaks
RECURSIVE CollapseBlank(_)
CollapseBlank(s) ==
    IF s = <<>> THEN <<>>
    ELSE IF s[1] = NL
         THEN LET e == SkipSpace(s, 1)
                  nls == {k \in 1..(e - 1) : s[k] = NL}
              IN  IF Cardinality(nls) >= 3
                  THEN <<NL, NL>> \o CollapseBlank(From(s, MaxOf(nls) + 1))
                  ELSE <<s[1]>> \o CollapseBlank(Tail(s))
         ELSE <<s[1]>> \o CollapseBlank(Tail(s))

remove_empty_lines(cfg, text) ==
    IF ~cfg.remove_empty_lines THEN text
    ELSE Strip(CollapseBlank(CollapseBlank(text))) \o <<NL>>

add_final_newline(cfg, text) ==
    IF ~cfg.add_final_newline THEN text
    ELSE RStrip(text) \o <<NL>>

----------------------------------------------------------------------------
(* remove_image_links                                                      *)

\* smallest j >= i where one of lits occurs, no line break in s[i..j-1]
\* (what a lazy .*? followed by a literal finds); 0 when there is none
FirstOnLine(s, i, lits) ==
    LET ok == {j \in i..Len(s) :
                  /\ \E lit \in lits : At(s, j, lit)
                  /\ \A k \in i..(j - 1) : s[k] # NL}
    IN  IF ok = {} THEN 0 ELSE MinOf(ok)

LitAt(s, j, lits) == CHOOSE lit \in lits : At(s, j, lit)

\* end of the match of  open .*? mid .*? \.(ext) .*? close  at position 1
\* of s, 0 when it does not match there
ImageMatchEnd(s, open, mid, exts, close) ==
    IF ~At(s, 1, open) THEN 0
    ELSE LET j == FirstOnLine(s, 1 + Len(open), {mid})
         IN  IF j = 0 THEN 0
             ELSE LET k == FirstOnLine(s, j + Len(mid), exts)
                  IN  IF k = 0 THEN 0
                      ELSE LET e == FirstOnLine(s, k + Len(LitAt(s, k, exts)),
                                                {close})
                           IN  IF e = 0 THEN 0 ELSE e + Len(close) - 1

\* re.sub(pattern, '', s)
RECURSIVE DeleteImages(_, _, _, _, _)
DeleteImages(s, open, mid, exts, close) ==
    IF s = <<>> THEN <<>>
    ELSE LET e == ImageMatchEnd(s, open, mid, exts, close)
         IN  IF e > 0
             THEN DeleteImages(From(s, e + 1), open, mid, exts, close)
             ELSE <<s[1]>> \o DeleteImages(Tail(s), open, mid, exts, close)

\* \.(jpg|jpeg|png|gif|bmp|webp)
RasterExts == {<<".", "j", "p", "g">>, <<".", "j", "p", "e", "g">>,
               <<".", "p", "n", "g">>, <<".", "g", "i", "f">>,
               <<".", "b", "m", "p">>, <<".", "w", "e", "b", "p">>}
\* \.(svg|ico|tiff)
OtherExts == {<<".", "s", "v", "g">>, <<".", "i", "c", "o">>,
              <<".", "t", "i", "f", "f">>}

remove_image_links(cfg, text) ==
    IF ~cfg.remove_image_links THEN text
    ELSE LET c1 == DeleteImages(text, <<"!", "[">>, <<"]", "(">>,
                                RasterExts, <<")">>)
             c2 == DeleteImages(c1, <<"<", "i", "m", "g">>,
                                <<"s", "r", "c", "=">>, RasterExts, <<">">>)
         IN  DeleteImages(c2, <<"!", "[">>, <<"]", "(">>, OtherExts, <<")">>)

----------------------------------------------------------------------------
(* remove_special_chars                                                    *)

\* [\x00-\x08\x0B\x0C\x0E-\x1F\x7F]; of these a TLA+ string can hold \f (\x0C)
ControlChars == {"\f"}

remove_special_chars(cfg, text) ==
    IF ~cfg.remove_special_chars THEN text
    ELSE SelectSeq(text, LAMBDA c : c \notin ControlChars)

----------------------------------------------------------------------------
(* standardize_code_blocks                                                 *)

\* a TLA+ string cannot hold the backtick: this one token stands for it
TICK == "BACKTICK"
Fence == <<TICK, TICK, TICK>>

\* re.sub(fence + r'\s*(\w+)', fence + r'\1', s): the whitespace between a fence and
\* the word after it goes (\s also crosses line breaks)
RECURSIVE FenceWord(_)
FenceWord(s) ==
    IF s = <<>> THEN <<>>
    ELSE LET a == SkipSpace(s, Len(Fence) + 1)
         IN  IF At(s, 1, Fence) /\ a <= Len(s) /\ IsWord(s[a])
             THEN Fence \o <<s[a]>> \o FenceWord(From(s, a + 1))
             ELSE <<s[1]>> \o FenceWord(Tail(s))

\* re.sub(fence + r'\s*\n', fence + '\n', s): the match runs to the last line break of
\* the whitespace after the fence
RECURSIVE FenceNewline(_)
FenceNewline(s) ==
    IF s = <<>> THEN <<>>
    ELSE LET e == SkipSpace(s, Len(Fence) + 1)
             nls == {k \in (Len(Fence) + 1)..(e - 1) : s[k] = NL}
         IN  IF At(s, 1, Fence) /\ nls # {}
             THEN Fence \o <<NL>> \o FenceNewline(From(s, MaxOf(nls) + 1))
             ELSE <<s[1]>> \o FenceNewline(Tail(s))

standardize_code_blocks(cfg, text) ==
    IF ~cfg.standardize_code_blocks THEN text
    ELSE FenceNewline(FenceWord(text))

----------------------------------------------------------------------------
(* fix_urls                                                                *)

NoBreak(s, a, b) == \A k \in a..b : s[k] # NL

\* for a target opening at a (after "(" and its whitespace): the smallest
\* end p of the lazy group (.*?) such that \s*\) follows; 0 when none
TargetEnd(s, a) ==
    LET ok == {p \in a..(Len(s) + 1) :
                  /\ NoBreak(s, a, p - 1)
                  /\ SkipSpace(s, p) <= Len(s)
                  /\ s[SkipSpace(s, p)] = ")"}
    IN  IF ok = {} THEN 0 ELSE MinOf(ok)

\* positions of "](" that can close a label opening at position from
LabelEnds(s, from) ==
    {j \in from..Len(s) :
        /\ At(s, j, <<"]", "(">>)
        /\ NoBreak(s, from, j - 1)
        /\ TargetEnd(s, SkipSpace(s, j + 2)) # 0}

\* re.sub(prefix + r'(.*?)\]\(\s*(.*?)\s*\)', prefix + r'\1](\2)', s), the
\* prefix being "![" or "["
RECURSIVE FixLinks(_, _)
FixLinks(s, prefix) ==
    IF s = <<>> THEN <<>>
    ELSE LET ends == LabelEnds(s, Len(prefix) + 1)
         IN  IF At(s, 1, prefix) /\ ends # {}
             THEN LET j == MinOf(ends)
                      a == SkipSpace(s, j + 2)
                      p == TargetEnd(s, a)
                  IN  SubSeq(s, 1, j + 1) \o SubSeq(s, a, p - 1) \o <<")">>
                          \o FixLinks(From(s, SkipSpace(s, p) + 1), prefix)
             ELSE <<s[1]>> \o FixLinks(Tail(s), prefix)

fix_urls(cfg, text) ==
    IF ~cfg.fix_urls THEN text
    ELSE FixLinks(FixLinks(text, <<"!", "[">>), <<"[">>)

----------------------------------------------------------------------------
(* clean_file's pipeline                                                   *)

Stages == {"remove_image_links", "remove_special_chars", "normalize_headings",
           "format_tables", "standardize_code_blocks", "fix_urls",
           "remove_trailing_whitespace", "remove_empty_lines",
           "add_final_newline"}

\* for func in cleaning_functions: content = func(content)
Pipeline(cfg, text) ==
    LET c1 == remove_image_links(cfg, text)
        c2 == remove_special_chars(cfg, c1)
        c3 == normalize_headings(cfg, c2)
        c4 == format_tables(cfg, c3)
        c5 == standardize_code_blocks(cfg, c4)
        c6 == fix_urls(cfg, c5)
        c7 == remove_trailing_whitespace(cfg, c6)
        c8 == remove_empty_lines(cfg, c7)
    IN  add_final_newline(cfg, c8)

----------------------------------------------------------------------------
(* Configuration                                                           *)

\* self.config.get(key, default): every switch defaults to on, except
\* remove_special_chars
DefaultConfig ==
    [backup |-> TRUE, remove_image_links |-> TRUE,
     remove_special_chars |-> FALSE, normalize_headings |-> TRUE,
     format_tables |-> TRUE, standardize_code_blocks |-> TRUE,
     fix_urls |-> TRUE, remove_trailing_whitespace |-> TRUE,
     remove_empty_lines |-> TRUE, add_final_newline |-> TRUE]

\* the config main() builds from the command line
ConfigOfFlags(flags) ==
    [DefaultConfig EXCEPT
        !.backup = "no_backup" \notin flags,
        !.format_tables = "no_format_tables" \notin flags,
        !.remove_image_links = "no_remove_images" \notin flags,
        !.remove_special_chars = "remove_special_chars" \in flags]

\* no cleaner is running
NoConfig == [backup |-> FALSE]

SeqsUpTo(A, n) == UNION {[1..k -> A] : k \in 0..n}

----------------------------------------------------------------------------
(* The file system                                                         *)

Paths == {"a.md", "b.md"}
NoFile == [kind |-> "absent"]

\* the orders in which glob can list the directory
GlobOrders == {<<"a.md", "b.md">>, <<"b.md", "a.md">>}

TextFile(text, w) == [kind |-> "utf8", data |-> text, writable |-> w]

DocClean == <<"a", NL>>
DocHeading == <<"#", "T", NL>>
DocSpecial == <<"#", "T", "\f", "x", NL>>

\* kind: utf8 (decodes as UTF-8), gbk (only as GBK), binary (as neither),
\* dangling (a broken link glob still lists), unreadable (no permission)
FileStates ==
    {TextFile(DocClean, TRUE), TextFile(DocHeading, TRUE),
     TextFile(DocSpecial, TRUE), TextFile(DocHeading, FALSE),
     TextFile(<<>>, TRUE),
     [kind |-> "gbk", data |-> DocHeading, writable |-> TRUE],
     [kind |-> "binary", data |-> <<>>, writable |-> TRUE],
     [kind |-> "dangling", data |-> <<>>, writable |-> FALSE],
     [kind |-> "unreadable", data |-> <<>>, writable |-> TRUE]}

\* open(file_path, 'r') raises something other than UnicodeDecodeError,
\* which read_file does not catch
ReadRaises(f) == f.kind \in {"dangling", "unreadable"}

\* read_file where it returns: the text, or "" when both decodings fail
read_file(f) == IF f.kind \in {"utf8", "gbk"} THEN f.data ELSE <<>>

\* the comparison lost: every file read is written back
ChangedAlways(new, original) == TRUE

\* if content != original_content
Changed(new, original) == new # original

\* the test for an existing backup lost: every write copies the file
BackupWantedAlways(cfg, backup) == cfg.backup

\* if self.config.get('backup', True): ... if not os.path.exists(backup_path)
BackupWanted(cfg, backup) == cfg.backup /\ backup = NoFile

\* write_file: the backup is copied first; a failure of the copy or of the
\* open for writing is caught and logged, and ends write_file there
write_file(cfg, f, backup, text, dirw) ==
    IF BackupWanted(cfg, backup) /\ ~dirw
    THEN [file |-> f, backup |-> backup, outcome |-> "write_error"]
    ELSE LET b == IF BackupWanted(cfg, backup) THEN f ELSE backup
         IN  IF ~f.writable
             THEN [file |-> f, backup |-> b, outcome |-> "write_error"]
             ELSE [file |-> TextFile(text, TRUE), backup |-> b,
                   outcome |-> "cleaned"]

\* clean_file from  if not content: return  on, for the content read and
\* the content the stages return for it
clean_content(cfg, f, backup, dirw, original_content, new_content) ==
    IF original_content = <<>>
    THEN [file |-> f, backup |-> backup,
          outcome |-> IF f.kind = "binary" THEN "read_error" ELSE "skipped"]
    ELSE IF Changed(new_content, original_content)
         THEN write_file(cfg, f, backup, new_content, dirw)
         ELSE [file |-> f, backup |-> backup, outcome |-> "unmodified"]

\* clean_file on a file read_file returns for
clean_file(cfg, f, backup, dirw) ==
    clean_content(cfg, f, backup, dirw, read_file(f),
                  Pipeline(cfg, read_file(f)))

----------------------------------------------------------------------------
(* main, batch_clean and clean_file over the file system: Spec             *)

MaxRuns == 2

FlagSets == {{}, {"no_backup"}, {"remove_special_chars"},
             {"no_format_tables", "no_remove_images"}}

Stopped == {"idle", "done", "crashed"}

IdleStage == content = <<>> /\ cleaned = <<>>
IdleScan ==
    /\ lines = <<>>
    /\ pos = 0
    /\ result = <<>>
    /\ table_lines = <<>>
    /\ in_table = FALSE
IdleBatch ==
    /\ fs = [p \in Paths |-> NoFile]
    /\ bak = [p \in Paths |-> NoFile]
    /\ queue = <<>>
    /\ discovered = {}
    /\ processed = {}
    /\ report = [p \in Paths |-> "none"]
    /\ exitStatus = -1
    /\ runs = 0
    /\ dirWritable = TRUE

Init ==
    /\ fs \in [Paths -> FileStates]
    /\ bak = [p \in Paths |-> NoFile]
    /\ dirWritable \in BOOLEAN
    /\ config = NoConfig
    /\ pc = "idle"
    /\ queue = <<>>
    /\ discovered = {}
    /\ processed = {}
    /\ report = [p \in Paths |-> "none"]
    /\ exitStatus = -1
    /\ runs = 0
    /\ IdleStage
    /\ IdleScan

\* main on a directory: batch_clean globs it and enters its loop
MainDirectory(flags, order) ==
    /\ pc \in Stopped
    /\ runs < MaxRuns
    /\ runs' = runs + 1
    /\ config' = ConfigOfFlags(flags)
    /\ queue' = order
    /\ discovered' = Paths
    /\ processed' = {}
    /\ report' = [p \in Paths |-> "none"]
    /\ exitStatus' = -1
    /\ pc' = "loop"
    /\ UNCHANGED <<fs, bak, dirWritable, stageVars, scanVars>>

\* main on one file os.path.isfile accepts, named *.md
MainSingleFile(flags, path) ==
    /\ pc \in Stopped
    /\ runs < MaxRuns
    /\ fs[path].kind # "dangling"
    /\ runs' = runs + 1
    /\ config' = ConfigOfFlags(flags)
    /\ queue' = <<path>>
    /\ discovered' = {path}
    /\ processed' = {}
    /\ report' = [p \in Paths |-> "none"]
    /\ exitStatus' = -1
    /\ pc' = "loop"
    /\ UNCHANGED <<fs, bak, dirWritable, stageVars, scanVars>>

\* main on a file that is not *.md, or on a path that does not exist:
\* batch_clean logs the error and returns
MainBadInput ==
    /\ pc \in Stopped
    /\ runs < MaxRuns
    /\ runs' = runs + 1
    /\ config' = NoConfig
    /\ queue' = <<>>
    /\ discovered' = {}
    /\ processed' = {}
    /\ report' = [p \in Paths |-> "none"]
    /\ exitStatus' = 0
    /\ pc' = "done"
    /\ UNCHANGED <<fs, bak, dirWritable, stageVars, scanVars>>

\* what a returning clean_file(p) leaves behind: r is its effect
Cleaned(p, r) ==
    /\ fs' = [fs EXCEPT ![p] = r.file]
    /\ bak' = [bak EXCEPT ![p] = r.backup]
    /\ report' = [report EXCEPT ![p] = r.outcome]
    /\ queue' = Tail(queue)
    /\ UNCHANGED <<pc, exitStatus, config>>

\* one pass of  for md_file in md_files: self.clean_file(md_file).  An
\* exception read_file lets through ends the process with a traceback
CleanFile ==
    /\ pc = "loop"
    /\ queue # <<>>
    /\ processed' = processed \cup {Head(queue)}
    /\ IF ReadRaises(fs[Head(queue)])
       THEN /\ pc' = "crashed"
            /\ exitStatus' = 1
            /\ config' = NoConfig
            /\ queue' = <<>>
            /\ UNCHANGED <<fs, bak, report>>
       ELSE Cleaned(Head(queue),
                    clean_file(config, fs[Head(queue)], bak[Head(queue)],
                               dirWritable))
    /\ UNCHANGED <<discovered, runs, dirWritable, stageVars, scanVars>>

\* the loop is over: the summary is logged, main returns, the process exits
Summary ==
    /\ pc = "loop"
    /\ queue = <<>>
    /\ pc' = "done"
    /\ exitStatus' = 0
    /\ config' = NoConfig
    /\ UNCHANGED <<fs, bak, queue, discovered, processed, report, runs,
                   dirWritable, stageVars, scanVars>>

Next ==
    \/ \E flags \in FlagSets, order \in GlobOrders : MainDirectory(flags, order)
    \/ \E flags \in FlagSets, path \in Paths : MainSingleFile(flags, path)
    \/ MainBadInput
    \/ CleanFile
    \/ Summary

Spec == Init /\ [][Next]_vars

----------------------------------------------------------------------------
(* format_tables as the loop it is, one line a step: SpecTable             *)

MaxLines == 3

RowHeader == <<"|", " ", "A", " ", "|", " ", "B", "B", " ", "|", " ", "C", " ", "|">>
RowData == <<"|", " ", "1", " ", "|", " ", "2", "2", " ", "|", " ", "3", " ", "|">>
RowDashes == <<"|", "-", "-", "-", "|", "-", "-", "-", "|", "-", "-", "-", "|">>
RowShort == <<"|", "x", "|">>

\* the lines the documents of SpecTable are made of
LinePool ==
    {<<"x">>, <<>>,
     <<"a", "|", "b">>,
     <<"|", " ", "a", " ", "|", " ", "b">>,
     <<"a", " ", "|", " ", "b", " ", "|">>,
     RowHeader, RowData, RowDashes, RowShort}

TableDocs == {Join(ls, <<NL>>) : ls \in SeqsUpTo(LinePool, MaxLines)}

InitTable ==
    /\ content \in TableDocs
    /\ cleaned = <<>>
    /\ config = DefaultConfig
    /\ pc = "scan"
    /\ lines = Split(content, NL)
    /\ pos = 0
    /\ result = <<>>
    /\ table_lines = <<>>
    /\ in_table = FALSE
    /\ IdleBatch

\* the scanner's state after st
Scanned(st) ==
    /\ result' = st.result
    /\ table_lines' = st.table_lines
    /\ in_table' = st.in_table

\* one pass of  for i, line in enumerate(lines)
TableScanLine ==
    /\ pc = "scan"
    /\ pos < Len(lines)
    /\ pos' = pos + 1
    /\ Scanned(ScanLine([result |-> result, table_lines |-> table_lines,
                         in_table |-> in_table], lines[pos + 1]))
    /\ UNCHANGED <<pc, lines, content, cleaned, config, batchVars>>

\* the flush after the loop, and  return '\n'.join(result)
TableScanEnd ==
    /\ pc = "scan"
    /\ pos = Len(lines)
    /\ pc' = "returned"
    /\ result' = ScanEnd([result |-> result, table_lines |-> table_lines,
                          in_table |-> in_table])
    /\ cleaned' = Join(result', <<NL>>)
    /\ UNCHANGED <<lines, pos, table_lines, in_table, content, config,
                   batchVars>>

NextTable == TableScanLine \/ TableScanEnd

SpecTable == InitTable /\ [][NextTable]_vars

----------------------------------------------------------------------------
(* normalize_headings on bounded documents: SpecHeadings                   *)

MaxHeadingLen == 5

\* the examples of the specification, and a heading with six markers in
\* its title
HeadingExamples ==
    {<<"#", "#", " ", "T", "i", "t", "l", "e", " ", "#", "#">>,
     <<"#", "T", "i", "t", "l", "e">>,
     <<"#", " ", "a", "#", "b", "#", "c", "#", "d", "#", "e", "#", "f", "#", "g">>}

HeadingDocs ==
    SeqsUpTo({"#", " ", "T", NL}, MaxHeadingLen) \cup HeadingExamples

InitHeadings ==
    /\ content \in HeadingDocs
    /\ cleaned = <<>>
    /\ config = DefaultConfig
    /\ pc = "ready"
    /\ IdleScan
    /\ IdleBatch

NormalizeHeadings ==
    /\ pc = "ready"
    /\ pc' = "returned"
    /\ cleaned' = normalize_headings(config, content)
    /\ UNCHANGED <<content, config, scanVars, batchVars>>

NextHeadings == NormalizeHeadings

SpecHeadings == InitHeadings /\ [][NextHeadings]_vars

----------------------------------------------------------------------------
(* remove_empty_lines on bounded documents: SpecBlank                      *)

MaxBlankLen == 7

BlankDocs == SeqsUpTo({"a", " ", NL}, MaxBlankLen)

InitBlank ==
    /\ content \in BlankDocs
    /\ cleaned = <<>>
    /\ config = DefaultConfig
    /\ pc = "ready"
    /\ IdleScan
    /\ IdleBatch

RemoveEmptyLines ==
    /\ pc = "ready"
    /\ pc' = "returned"
    /\ cleaned' = remove_empty_lines(config, content)
    /\ UNCHANGED <<content, config, scanVars, batchVars>>

NextBlank == RemoveEmptyLines

SpecBlank == InitBlank /\ [][NextBlank]_vars

----------------------------------------------------------------------------
(* the stages of clean_file run twice, under every choice of the stage     *)
(* switches: SpecPipeline                                                  *)

MaxFragments == 2

Fragments ==
    {<<"x">>, <<NL>>, <<" ">>,
     <<"#", "#", "T">>,
     <<"a", "|", "b", NL, "c", "|", "d">>,
     <<"!", "[", "]", "(", "a", ".", "p", "n", "g", ")">>,
     <<TICK, TICK, TICK, " ", "p", "y">>,
     <<"[", "a", "]", "(", " ", "u", " ", ")">>,
     <<"\f">>}

RECURSIVE Concat(_)
Concat(pieces) ==
    IF pieces = <<>> THEN <<>> ELSE Head(pieces) \o Concat(Tail(pieces))

PipelineDocs == {Concat(fr) : fr \in SeqsUpTo(Fragments, MaxFragments)}

StageConfigs ==
    {[k \in Stages \cup {"backup"} |-> k = "backup" \/ k \in on] :
        on \in SUBSET Stages}

InitPipeline ==
    /\ content \in PipelineDocs
    /\ cleaned = <<>>
    /\ config \in StageConfigs
    /\ pc = "ready"
    /\ IdleScan
    /\ IdleBatch

\* the first run of the stages over the document
FirstRun ==
    /\ pc = "ready"
    /\ pc' = "once"
    /\ cleaned' = Pipeline(config, content)
    /\ UNCHANGED <<content, config, scanVars, batchVars>>

\* the stages run again over what the first run returned
SecondRun ==
    /\ pc = "once"
    /\ pc' = "twice"
    /\ content' = cleaned
    /\ cleaned' = Pipeline(config, cleaned)
    /\ UNCHANGED <<config, scanVars, batchVars>>

NextPipeline == FirstRun \/ SecondRun

SpecPipeline == InitPipeline /\ [][NextPipeline]_vars

----------------------------------------------------------------------------
(* The claims over Spec                                                    *)

\* C6: in batch_clean a failure while reading or writing one file is
\* confined to that file: when the batch has ended, clean_file has been
\* called on every discovered file, the summary has been reached (the
\* process did not die of an exception) and the exit status is 0.
C6_FailureConfined ==
    pc \in {"done", "crashed"} =>
        /\ pc = "done"
        /\ processed = discovered
        /\ exitStatus = 0

\* C7 as claimed: with backup enabled, after every clean_file that modifies
\* a file the backup holds the content the file had before that run, and no
\* run overwrites a backup that exists.
C7_BackupIsPreRunContent ==
    [][\A p \in Paths :
          /\ bak[p] # NoFile => bak'[p] = bak[p]
          /\ (fs'[p] # fs[p] /\ config.backup) => bak'[p] = fs[p]]_vars

\* C7 amended: no run overwrites a backup that exists; and with backup
\* enabled, a clean_file that modifies a file which has no backup yet leaves
\* in the backup the content the file had before that run.
C7_BackupSafety ==
    [][\A p \in Paths :
          /\ bak[p] # NoFile => bak'[p] = bak[p]
          /\ (fs'[p] # fs[p] /\ config.backup /\ bak[p] = NoFile)
                => bak'[p] = fs[p]]_vars

\* a later run has rewritten a file whose backup differs from it
C7_Witness ==
    \E p \in Paths :
        /\ runs >= 2
        /\ report[p] = "cleaned"
        /\ bak[p] # NoFile
        /\ bak[p] # fs[p]

\* C8: the file system changes at a path only in a clean_file whose stages
\* return something other than the content read; when they return the
\* content read, the file is not written and no backup appears.
C8_ChangeDetection ==
    [][\A p \in Paths :
          (fs'[p] # fs[p] \/ bak'[p] # bak[p]) =>
              /\ pc = "loop"
              /\ queue # <<>>
              /\ Head(queue) = p
              /\ ~ReadRaises(fs[p])
              /\ Pipeline(config, read_file(fs[p])) # read_file(fs[p])]_vars

\* clean_file found a file its stages leave as it is, and left no backup
C8_Witness ==
    \E p \in Paths :
        /\ pc = "loop"
        /\ report[p] = "unmodified"
        /\ read_file(fs[p]) # <<>>
        /\ Pipeline(config, read_file(fs[p])) = read_file(fs[p])
        /\ config.backup
        /\ bak[p] = NoFile

----------------------------------------------------------------------------
(* The claim over SpecPipeline                                             *)

\* C1: for every document and every combination of the stage switches,
\* running the enabled stages over the output of a first run returns that
\* same output.
C1_PipelineIdempotent == pc = "twice" => cleaned = content

----------------------------------------------------------------------------
(* The claims over SpecTable                                               *)

\* line i is a run of exactly one candidate
LoneCandidate(i) ==
    /\ IsCandidate(lines[i])
    /\ i = 1 \/ ~IsCandidate(lines[i - 1])
    /\ i = Len(lines) \/ ~IsCandidate(lines[i + 1])

\* C2: format_tables emits a run of exactly one candidate line verbatim at
\* its place: the output has as many lines as the input and holds the lone
\* candidate, unchanged, where the input has it.
C2_LoneRowVerbatim ==
    pc = "returned" =>
        /\ Len(result) = Len(lines)
        /\ \A i \in 1..Len(lines) : LoneCandidate(i) => result[i] = lines[i]

\* C3: a non-candidate line flushes the current run: once the scanner has
\* consumed a non-candidate line it is outside a block and its accumulator
\* is empty, so no row waits to be emitted after a line that followed it.
C3_NonCandidateFlushes ==
    (pos >= 1 /\ ~IsCandidate(lines[pos])) =>
        (~in_table /\ table_lines = <<>>)

CellsABC == <<<<"A">>, <<"B", "B">>, <<"C">>>>
Cells123 == <<<<"1">>, <<"2", "2">>, <<"3">>>>

\* C4: for the block with header cells A, BB, C and data cells 1, 22, 3,
\* whatever its second row holds, the column widths are 1, 2, 1, the second
\* row comes out as width + 2 dashes per column, and the other rows as the
\* cells padded to those widths.
C4_SecondRowIgnored ==
    (/\ pc = "returned"
     /\ Len(lines) = 3
     /\ Cells(lines[1]) = CellsABC
     /\ IsCandidate(lines[2])
     /\ Cells(lines[3]) = Cells123) =>
        /\ ColWidths(table_lines) = <<1, 2, 1>>
        /\ result = <<RowHeader,
                      <<"|", "-", "-", "-", "|", "-", "-", "-", "-", "|",
                        "-", "-", "-", "|">>,
                      RowData>>

\* the trimmed texts between the separators of a line, less the empty
\* strings a leading and a trailing separator produce
CellsBetweenSeparators(line) ==
    LET parts == Split(Strip(line), BAR)
        first == IF parts[1] = <<>> THEN 2 ELSE 1
        last == IF parts[Len(parts)] = <<>> THEN Len(parts) - 1 ELSE Len(parts)
    IN  [i \in 1..(last - first + 1) |-> Strip(parts[first + i - 1])]

\* C10: a candidate row lacking a leading or a trailing separator is
\* treated as if bracketed by both: every row of a formatted block but the
\* second comes out with the cells the input row holds between its
\* separators, none lost and none added.
C10_CellsPreserved ==
    (/\ pc = "returned"
     /\ Len(lines) >= 2
     /\ \A i \in 1..Len(lines) : IsCandidate(lines[i])) =>
        /\ Len(result) = Len(lines)
        /\ \A j \in 1..Len(lines) :
               j # 2 => Cells(result[j]) = CellsBetweenSeparators(lines[j])

----------------------------------------------------------------------------
(* The claim over SpecHeadings                                             *)

\* the markers a line opens with
OpeningMarkers(line) == Len(line) - Len(DropLeading(line, HASH))

\* the title of a heading line: what follows the opening markers, trimmed,
\* less a closing run of markers
TitleOf(line) ==
    LET t == Strip(DropLeading(line, HASH))
    IN  IF Len(t) >= 1 /\ t[Len(t)] = HASH
        THEN Strip(DropTrailing(t, HASH))
        ELSE t

\* C5: a heading line with n opening markers (1 <= n <= 6) and no marker in
\* its title comes out as n markers, one space and the trimmed title, a
\* closing run of markers removed ("## Title ##" as "## Title", "#Title" as
\* "# Title"); and a heading whose title holds markers for a level above 6
\* comes out with exactly 6 markers.
C5_HeadingLevelKept ==
    pc = "returned" =>
        /\ Len(Split(cleaned, NL)) = Len(Split(content, NL))
        /\ \A i \in 1..Len(Split(content, NL)) :
              LET line == Split(content, NL)[i]
                  out == Split(cleaned, NL)[i]
              IN  /\ (/\ OpeningMarkers(line) \in 1..MaxHeadingLevel
                      /\ ~Contains(TitleOf(line), HASH)) =>
                         out = Repeat(HASH, OpeningMarkers(line))
                                   \o <<" ">> \o TitleOf(line)
                  /\ (/\ StartsWith(Strip(line), HASH)
                      /\ Count(TitleOf(line), HASH) >= MaxHeadingLevel) =>
                         /\ OpeningMarkers(out) = MaxHeadingLevel
                         /\ out[MaxHeadingLevel + 1] = " "

----------------------------------------------------------------------------
(* The claim over SpecBlank                                                *)

\* the lines of a document, a final line break ending the last of them
DocLines(s) ==
    LET ls == Split(s, NL)
    IN  IF ls[Len(ls)] = <<>> THEN SubSeq(ls, 1, Len(ls) - 1) ELSE ls

IsBlank(line) == Strip(line) = <<>>
NonBlank(ls) == {i \in 1..Len(ls) : ~IsBlank(ls[i])}

\* the place of the k-th non-blank line, 0 for k = 0
NthNonBlank(ls, k) ==
    IF k = 0 THEN 0
    ELSE CHOOSE i \in NonBlank(ls) :
             Cardinality({j \in NonBlank(ls) : j < i}) = k - 1

\* the blank lines right before the k-th non-blank line
BlankBefore(ls, k) == NthNonBlank(ls, k) - NthNonBlank(ls, k - 1) - 1

\* the blank lines after the last non-blank line
BlankAtEnd(ls) == Len(ls) - NthNonBlank(ls, Cardinality(NonBlank(ls)))

\* no two blank lines in a row
NoBlankRun(ls) ==
    \A i \in 1..(Len(ls) - 1) : ~(IsBlank(ls[i]) /\ IsBlank(ls[i + 1]))

====
